---- MODULE Spec2Model ----
(***************************************************************************)
(* Model of the Sookasem Place animation controller (src/index.js): the    *)
(* DOMContentLoaded handler that binds a horizontal-scroll tween and a     *)
(* pinned, scrubbed scroll trigger to #wrap-scroll, registers the fade-up  *)
(* and text-split observers, and leaves refreshing to the animation        *)
(* engine's auto-refresh events.                                           *)
(*                                                                         *)
(* JavaScript values are records [t, v]: t = "num" (v the number),        *)
(* "nan", "fn" (a function object), "throw" (a TypeError was raised) and   *)
(* "unset" (no value was ever computed).                                   *)
(***************************************************************************)
EXTENDS Integers, FiniteSets, Sequences, TLC

\* ---- bounds of the model ------------------------------------------------
MaxW == 3
MaxBoxes == 1
MaxScroll == 2
MaxCount == 2

Widths == 0..MaxW

\* ---- configuration literals of the script -------------------------------
DefaultPriority == 0
HScrollPriorityDefault == DefaultPriority
HScrollPriority == -1
GoUpPriority == -1
TextSplitPriority == -1
Scrub == 195

ListenerEventResize == "resize"
ListenerEvent == "DOMContentLoaded"
AutoRefreshEvents == {"visibilitychange", "DOMContentLoaded", "load", "resize"}
PageEvents == {"DOMContentLoaded", "load", "resize", "visibilitychange"}

\* ---- JavaScript values ----------------------------------------------------
Num(n) == [t |-> "num", v |-> n]
NaN == [t |-> "nan", v |-> 0]
FnRef == [t |-> "fn", v |-> 0]
TypeError == [t |-> "throw", v |-> 0]
Unset == [t |-> "unset", v |-> 0]

Abs(n) == IF n < 0 THEN -n ELSE n

\* ToNumber(): a function object converts to NaN, a number to itself.
ToNumber(val) == IF val.t = "num" THEN val ELSE IF val.t = "throw" THEN val ELSE NaN

\* a * b on JavaScript values; NaN is absorbing, an exception propagates.
JsMul(a, b) ==
  LET x == ToNumber(a)
      y == ToNumber(b)
  IN IF x.t = "throw" THEN x
     ELSE IF y.t = "throw" THEN y
     ELSE IF x.t = "nan" \/ y.t = "nan" THEN NaN
     ELSE Num(x.v * y.v)

VARIABLES
  pc,           \* "loading" before the ready handler ran, "done" after
  domReady,     \* the browser has dispatched DOMContentLoaded
  found,        \* document.querySelector("#wrap-scroll") finds an element
  scrollWidth,  \* w_scr.scrollWidth
  innerWidth,   \* window.innerWidth
  dirty,        \* the layout changed since the last setup / refresh pass
  animCount,    \* how many times the horizontal tween `a` was created
  animX,        \* the tween's current target offset x
  trigCount,    \* how many times the horizontal ScrollTrigger was created
  trigEnd,      \* the offset of its `end: "+=<offset>"`
  registered,   \* scroll observers known to the engine
  stepsRun,     \* statements of the handler that completed, in order
  error,        \* an exception escaped a handler
  refreshed,    \* at least one refresh pass ran after setup
  hRank,        \* observers recalculated before the horizontal one, last pass
  ret,          \* what the last call of get_scr returned
  callKind,     \* "none", "first", "repeat" (same layout), "fresh" (changed)
  callParity,   \* flips on every call of get_scr
  scrollPos,    \* scroll offset inside the activation span, in steps
  scrubTarget,  \* progress the scrub drives the animation towards
  progress      \* progress of the bound animation, in percent

vars == <<pc, domReady, found, scrollWidth, innerWidth, dirty, animCount, animX,
          trigCount, trigEnd, registered, stepsRun, error, refreshed, hRank,
          ret, callKind, callParity, scrollPos, scrubTarget, progress>>

\* ---- observers -----------------------------------------------------------
Obs(sel, idx, prio) == [sel |-> sel, idx |-> idx, prio |-> prio]

HScrollObs == Obs("#wrap-scroll", 0, HScrollPriority)
OtherObs == Obs("other", 0, DefaultPriority)
Elements == {".m_i", ".t", ".loc"}
GoUpObs(nb) == {Obs(e, 0, GoUpPriority) : e \in Elements}
                 \cup {Obs(".provide p", i, GoUpPriority) : i \in 1..nb}
TextSplitObs == Obs(".text_spl", 0, TextSplitPriority)
Siblings(obs) == {o \in obs : o.sel \notin {"#wrap-scroll", "other"}}

\* ---- the scroll distance --------------------------------------------------
get_scr_noneg == IF found THEN Num(scrollWidth - innerWidth) ELSE TypeError

get_scr_cached ==
  IF ~found THEN TypeError
  ELSE IF callKind # "none" THEN ret
  ELSE Num(-(scrollWidth - innerWidth))

\* get_scr(): reads the live layout; dereferencing a null w_scr throws.
get_scr == IF found THEN Num(-(scrollWidth - innerWidth)) ELSE TypeError

\* `x: get_scr()` evaluated while the vars object is built.
XTargetEager(targets) == get_scr

\* `x: () => get_scr()`: the engine calls the function once per target.
XTarget(targets) == IF targets = 0 THEN Unset ELSE get_scr

\* `${get_scr * -1}`: the function object itself is multiplied, not its result.
EndOffset == JsMul(FnRef, Num(-1))

Targets == IF found THEN 1 ELSE 0

\* bookkeeping of a call of get_scr that returned value x
Called(x) ==
  /\ ret' = x
  /\ callParity' = 1 - callParity
  /\ callKind' = IF callKind = "none" THEN "first"
                 ELSE IF dirty THEN "fresh" ELSE "repeat"

NotCalled == UNCHANGED <<ret, callKind, callParity>>

Bump(n) == IF n < MaxCount THEN n + 1 ELSE n

AllSteps == <<"querySelector", "registerPlugin", "gsap.to", "ScrollTrigger.create",
              "goUp elements", "goUp boxes", "text split", "ScrollTrigger.config",
              "drift">>

\* ---- scrub ------------------------------------------------------------------
ProgressOf(s) == (100 * s) \div MaxScroll
StepPct == 100 \div MaxScroll
Dist(a, b) == Abs(a - b)

ScrubStepJump(p, t) == IF p < t THEN 100 ELSE 0

\* one step of the scrub tween: the playhead moves towards the target
ScrubStep(p, t) ==
  IF p < t THEN (IF p + StepPct > t THEN t ELSE p + StepPct)
  ELSE (IF p - StepPct < t THEN t ELSE p - StepPct)

Init ==
  /\ pc = "loading"
  /\ domReady = FALSE
  /\ found \in BOOLEAN
  /\ scrollWidth \in Widths
  /\ innerWidth \in Widths
  /\ dirty = FALSE
  /\ animCount = 0
  /\ animX = Unset
  /\ trigCount = 0
  /\ trigEnd = Unset
  /\ registered \in {{}, {OtherObs}}
  /\ stepsRun = <<>>
  /\ error = FALSE
  /\ refreshed = FALSE
  /\ hRank = -1
  /\ ret = Unset
  /\ callKind = "none"
  /\ callParity = 0
  /\ scrollPos = 0
  /\ scrubTarget = 0
  /\ progress = 0

\* The body of the DOMContentLoaded listener; nb is the number of elements
\* that document.querySelectorAll(".provide p") returns.
Handler ==
  \E nb \in 0..MaxBoxes :
  LET x == XTarget(Targets)
  IN IF x.t = "throw"
     THEN /\ error' = TRUE
          /\ stepsRun' = SubSeq(AllSteps, 1, 2)
          /\ Called(x)
          /\ UNCHANGED <<animCount, animX, trigCount, trigEnd, registered>>
     ELSE /\ animCount' = Bump(animCount)
          /\ animX' = x
          /\ IF Targets = 0 THEN NotCalled ELSE Called(x)
          /\ trigCount' = Bump(trigCount)
          /\ trigEnd' = EndOffset
          /\ registered' = registered \cup {HScrollObs} \cup GoUpObs(nb)
                             \cup {TextSplitObs}
          /\ stepsRun' = AllSteps
          /\ UNCHANGED error

\* One refresh pass of the engine over the registered observers, in descending
\* refreshPriority. The order among observers of equal priority is the
\* engine's (creation order or position on the page): k of the observers that
\* tie with the horizontal one are recalculated before it.
RefreshPass ==
  LET higher == {o \in registered : o.prio > HScrollObs.prio}
      ties == {o \in registered \ {HScrollObs} : o.prio = HScrollObs.prio}
      x == XTarget(Targets)
  IN /\ \E k \in 0..Cardinality(ties) : hRank' = Cardinality(higher) + k
     /\ refreshed' = TRUE
     /\ IF x.t = "throw"
        THEN error' = TRUE /\ Called(x) /\ UNCHANGED animX
        ELSE /\ animX' = x
             /\ IF Targets = 0 THEN NotCalled ELSE Called(x)
             /\ UNCHANGED error
     /\ UNCHANGED <<animCount, trigCount, trigEnd, registered, stepsRun>>

\* The browser dispatches page event ev to the registered listeners.
Dispatch(ev) ==
  /\ ev = "DOMContentLoaded" => ~domReady
  /\ ev # "DOMContentLoaded" => domReady
  /\ domReady' = TRUE
  /\ IF ev = ListenerEvent
     THEN /\ Handler
          /\ pc' = "done"
          /\ dirty' = FALSE
          /\ UNCHANGED <<refreshed, hRank>>
     ELSE IF pc = "done" /\ trigCount > 0 /\ ev \in AutoRefreshEvents
     THEN /\ RefreshPass
          /\ dirty' = FALSE
          /\ UNCHANGED pc
     ELSE UNCHANGED <<pc, dirty, animCount, animX, trigCount, trigEnd, registered,
                      stepsRun, error, refreshed, hRank, ret, callKind, callParity>>
  /\ UNCHANGED <<found, scrollWidth, innerWidth, scrollPos, scrubTarget, progress>>

\* The viewport is resized or the content's width changes.
LayoutChange(c, v) ==
  /\ <<c, v>> # <<scrollWidth, innerWidth>>
  /\ scrollWidth' = c
  /\ innerWidth' = v
  /\ dirty' = TRUE
  /\ UNCHANGED <<pc, domReady, found, animCount, animX, trigCount, trigEnd,
                 registered, stepsRun, error, refreshed, hRank, ret, callKind,
                 callParity, scrollPos, scrubTarget, progress>>

\* The user scrolls to offset s of the activation span.
Scroll(s) ==
  /\ pc = "done"
  /\ trigCount > 0
  /\ s # scrollPos
  /\ scrollPos' = s
  /\ scrubTarget' = ProgressOf(s)
  /\ progress' = IF Scrub > 0 THEN progress ELSE ProgressOf(s)
  /\ UNCHANGED <<pc, domReady, found, scrollWidth, innerWidth, dirty, animCount,
                 animX, trigCount, trigEnd, registered, stepsRun, error, refreshed,
                 hRank, ret, callKind, callParity>>

\* Time passes: the scrub tween moves the playhead.
Tick ==
  /\ pc = "done"
  /\ progress # scrubTarget
  /\ progress' = ScrubStep(progress, scrubTarget)
  /\ UNCHANGED <<pc, domReady, found, scrollWidth, innerWidth, dirty, animCount,
                 animX, trigCount, trigEnd, registered, stepsRun, error, refreshed,
                 hRank, ret, callKind, callParity, scrollPos, scrubTarget>>

Next ==
  \/ \E ev \in PageEvents : Dispatch(ev)
  \/ \E c \in Widths, v \in Widths : LayoutChange(c, v)
  \/ \E s \in 0..MaxScroll : Scroll(s)
  \/ Tick

Spec == Init /\ [][Next]_vars

\* ---- claims -----------------------------------------------------------------

\* C1: a call of get_scr returns -(C - V) for the layout it reads: negative
\* with magnitude C - V when the content overflows, and >= 0 otherwise.
C1_ScrollDistance ==
  (found /\ callKind # "none" /\ ~dirty) =>
     /\ ret.t = "num"
     /\ ret.v + scrollWidth = innerWidth
     /\ scrollWidth > innerWidth => (ret.v < 0 /\ Abs(ret.v) = scrollWidth - innerWidth)
     /\ scrollWidth <= innerWidth => ret.v >= 0

C1_Witness ==
  /\ found /\ callKind # "none" /\ ~dirty
  /\ scrollWidth = MaxW /\ innerWidth = 1 /\ ret = Num(1 - MaxW)

\* C2 (as claimed): right after the trigger is bound, the offset of its `end`
\* equals abs(get_scr()) for the layout at that moment.
C2_SpanAtBind ==
  (found /\ pc = "done" /\ ~refreshed /\ ~dirty) =>
     trigEnd = Num(Abs(innerWidth - scrollWidth))

\* C3 (as claimed): after a layout-invalidation event and the refresh it causes,
\* the tween's target and the trigger's end offset both hold the value get_scr()
\* gives for the new layout.
C3_RecomputedOnRefresh ==
  (found /\ pc = "done" /\ refreshed /\ ~dirty) =>
     /\ animX = Num(-(scrollWidth - innerWidth))
     /\ trigEnd = Num(Abs(-(scrollWidth - innerWidth)))

\* C4 (as claimed): whenever setup or a refresh has seen the current layout, the
\* span length equals abs(tween target) equals abs(-(C - V)).
C4_Consistent ==
  (found /\ pc = "done" /\ ~dirty) =>
     /\ animX.t = "num" /\ trigEnd.t = "num"
     /\ trigEnd.v = Abs(animX.v)
     /\ Abs(animX.v) = Abs(-(scrollWidth - innerWidth))

\* C5 (as claimed): the horizontal trigger's refresh priority is lower than
\* that of the fade-up and text-split observers, and in every refresh pass it
\* is recalculated after all of them.
C5_RunsAfterSiblings ==
  pc = "done" =>
     /\ \A h \in registered : h.sel = "#wrap-scroll" =>
          \A o \in Siblings(registered) : h.prio < o.prio
     /\ refreshed => hRank = Cardinality(registered) - 1

\* C5 (amended): the horizontal trigger's refresh priority is lower than the
\* default and equal to that of the fade-up and text-split observers; in every
\* refresh pass it is recalculated after every default-priority observer.
C5_RunsAfterDefault ==
  pc = "done" =>
     /\ \A h \in registered : h.sel = "#wrap-scroll" =>
          /\ h.prio < DefaultPriority
          /\ \A o \in Siblings(registered) : o.prio = h.prio
     /\ refreshed => hRank >= Cardinality({o \in registered : o.prio >= DefaultPriority})

C5_Witness ==
  /\ pc = "done" /\ refreshed
  /\ OtherObs \in registered
  /\ hRank = 1
  /\ Cardinality(Siblings(registered)) = 4 + MaxBoxes

\* C6 (as claimed): the animation's progress is a function of the scroll offset
\* alone, with no time-dependent lag.
C6_ProgressFollowsScroll ==
  pc = "done" => progress = ProgressOf(scrollPos)

\* C6 (amended): the progress the scrub drives the animation towards is a
\* function of the scroll offset alone; the progress itself is not changed by
\* scrolling and only moves closer to that target as time passes.
C6_TargetFollowsScroll ==
  [][pc' = "done" =>
       /\ scrubTarget' = ProgressOf(scrollPos')
       /\ scrollPos' # scrollPos => progress' = progress
       /\ progress' # progress =>
            Dist(progress', scrubTarget) < Dist(progress, scrubTarget)]_vars

C6_Witness ==
  /\ pc = "done"
  /\ scrollPos = MaxScroll
  /\ scrubTarget = 100
  /\ progress # 0 /\ progress # 100

\* C7: the tween and the trigger are created exactly once, by the ready
\* handler; no later event creates them again.
C7_CreatedOnce ==
  /\ pc = "loading" => (animCount = 0 /\ trigCount = 0)
  /\ pc = "done" => (animCount = 1 /\ trigCount = 1)

C7_Witness ==
  /\ pc = "done" /\ refreshed /\ ~dirty
  /\ callKind = "fresh"
  /\ animCount = 1 /\ trigCount = 1

\* C8: a call of get_scr returns the value for the layout at the moment of the
\* call, leaves the layout as it was, and returns what the previous call
\* returned when the layout did not change in between.
C8_NoCallHistory ==
  [][callParity' # callParity =>
       /\ ret' = Num(innerWidth' - scrollWidth')
       /\ scrollWidth' = scrollWidth /\ innerWidth' = innerWidth
       /\ (callKind # "none" /\ ~dirty) => ret' = ret]_vars

C8_Witness ==
  /\ found /\ callKind = "fresh" /\ ~dirty
  /\ ret = Num(innerWidth - scrollWidth)
  /\ ret # Num(0)

\* C9 (as claimed): with C = V the scroll distance is 0, the span length is 0
\* and neither setup nor refresh raised an error.
C9_Degenerate ==
  (found /\ pc = "done" /\ ~dirty /\ scrollWidth = innerWidth) =>
     /\ ret = Num(0)
     /\ trigEnd = Num(0)
     /\ ~error

\* C10: when #wrap-scroll is missing, setup and every later refresh raise no
\* error and every statement of the ready handler runs.
C10_NullContainerSilent ==
  (~found /\ pc = "done") =>
     /\ ~error
     /\ stepsRun = AllSteps
     /\ animCount = 1 /\ trigCount = 1
     /\ TextSplitObs \in registered

C10_Witness ==
  /\ ~found /\ pc = "done" /\ refreshed /\ dirty = FALSE
  /\ stepsRun = AllSteps

====
